---- MODULE Spec2Model ----
(***************************************************************************)
(* Model of src/services/CalorieAdjustmentService.ts (nutrismart).         *)
(*                                                                         *)
(* Units.  Weights are fixed-point tenths of a kilogram (800 = 80.0 kg),   *)
(* so the thresholds 2 kg, 1 kg, 0.5 kg and 0.2 kg are 20, 10, 5 and 2.    *)
(* Dates are whole days: WeightEntry.date is a 'YYYY-MM-DD' string, which  *)
(* new Date() reads as midnight of that day, so "date <= now - k days"     *)
(* is "date <= today - k".  The clock `now` is the day of the instant      *)
(* new Date() returns.  A weekly change is a rational [num, den] in kg.    *)
(* Falsy JavaScript values (undefined, 0, '') are 0 for numbers and ""     *)
(* for strings, which is what `x || dflt` tests.                           *)
(***************************************************************************)
EXTENDS Integers, Sequences, FiniteSets, TLC

VARIABLES
    now,                  \* the wall clock (day number) new Date() would return
    user,                 \* the User passed to the call
    lastCalculatedWeight, \* the optional third argument of analyze (0 = absent)
    weightHistory,        \* the caller's WeightEntry[] array object
    callerHistory,        \* the array's contents when the caller made the call
    pc,                   \* position of the call: idle, trigger, done
    op,                   \* which exported function was called
    nowWeekly,            \* the clock value calculateWeeklyChange read (0 = none)
    nowTrigger,           \* the clock value shouldRecalculateCalories read (0 = none)
    velocityAlert,        \* the WeightChangeAlert of checkWeightVelocity
    recalc,               \* the result of shouldRecalculateCalories, with its arguments
    plateau,              \* the detectPlateau call: arguments and result
    result,               \* the CalorieAdjustment returned by analyze
    macros,               \* the macros recalculateMacrosForAdjustment returned
    calorieArgs,          \* the arguments analyze passed to calculateUserCalories
    applied               \* the caller has applied a weight_changed recommendation

vars == <<now, user, lastCalculatedWeight, weightHistory, callerHistory, pc, op,
          nowWeekly, nowTrigger, velocityAlert, recalc, plateau, result, macros,
          calorieArgs, applied>>

-----------------------------------------------------------------------------
(* Bounds of the model *)

MaxLen == 4       \* longest weight history
LastDay == 41     \* the clock stops advancing at this day

StartDay == 40    \* the day the call is made

-----------------------------------------------------------------------------
(* Arithmetic helpers *)

Abs(x) == IF x < 0 THEN -x ELSE x

\* variant: no lower bound
Max_Unclamped(a, b) == b

Max(a, b) == IF a >= b THEN a ELSE b

\* Math.round of n / d for n >= 0, d > 0
RoundDiv(n, d) == (2 * n + d) \div (2 * d)

\* Number.prototype.toFixed(1) of a weight difference given in tenths
ToFixed1(x) == ToString(x \div 10) \o "." \o ToString(x % 10)

\* String.prototype.includes on a text held as a sequence of words
Includes(text, word) == \E i \in 1..Len(text) : text[i] = word

-----------------------------------------------------------------------------
(* Array.prototype.sort((a, b) => date(b) - date(a)): stable, newest first *)

RECURSIVE InsertByDateDesc(_, _)
InsertByDateDesc(e, s) ==
    IF s = <<>> THEN <<e>>
    ELSE IF Head(s).date > e.date
         THEN <<Head(s)>> \o InsertByDateDesc(e, Tail(s))
         ELSE <<e>> \o s

RECURSIVE SortByDateDesc(_)
SortByDateDesc(s) ==
    IF s = <<>> THEN <<>>
    ELSE InsertByDateDesc(Head(s), SortByDateDesc(Tail(s)))

\* variant: entries dated exactly at the cutoff are left out
FilterOnOrBefore_StrictlyBefore(s, cutoff) == SelectSeq(s, LAMBDA e : e.date < cutoff)

\* Array.prototype.filter(e => new Date(e.date) <= cutoff)
FilterOnOrBefore(s, cutoff) == SelectSeq(s, LAMBDA e : e.date <= cutoff)

-----------------------------------------------------------------------------
(* Rationals for the weekly change, in kg per week: num / den with den > 0 *)

Rat(n, d) == [num |-> n, den |-> d]

RatLess(a, b) == a.num * b.den < b.num * a.den

RatLeq(a, b) == a.num * b.den <= b.num * a.den

RatEq(a, b) == a.num * b.den = b.num * a.den

-----------------------------------------------------------------------------
(* calculateWeeklyChange(weightHistory), with t the value new Date() returns *)

\* variant: a lone entry is compared with an empty scale
CalculateWeeklyChange_LoneEntryWeight(h, t) ==
    IF Len(h) = 0 THEN Rat(0, 1)
    ELSE IF Len(h) = 1 THEN Rat(h[1].weight, 10)
    ELSE LET sorted == SortByDateDesc(h)
             weekOldEntries == FilterOnOrBefore(sorted, t - 7)
         IN  IF Len(weekOldEntries) = 0
             THEN Rat((sorted[1].weight - sorted[Len(sorted)].weight) * 7,
                      10 * Max(1, sorted[1].date - sorted[Len(sorted)].date))
             ELSE Rat(sorted[1].weight - weekOldEntries[1].weight, 10)

\* variant: the reference is the oldest of the week-old entries
CalculateWeeklyChange_OldestReference(h, t) ==
    IF Len(h) < 2 THEN Rat(0, 1)
    ELSE LET sorted == SortByDateDesc(h)
             weekOldEntries == FilterOnOrBefore(sorted, t - 7)
         IN  IF Len(weekOldEntries) = 0
             THEN Rat((sorted[1].weight - sorted[Len(sorted)].weight) * 7,
                      10 * Max(1, sorted[1].date - sorted[Len(sorted)].date))
             ELSE Rat(sorted[1].weight - weekOldEntries[Len(weekOldEntries)].weight, 10)

CalculateWeeklyChange(h, t) ==
    IF Len(h) < 2 THEN Rat(0, 1)
    ELSE LET sorted == SortByDateDesc(h)
             weekAgo == t - 7
             recentEntry == sorted[1]
             weekOldEntries == FilterOnOrBefore(sorted, weekAgo)
         IN  IF Len(weekOldEntries) = 0
             THEN LET oldestEntry == sorted[Len(sorted)]
                      daysDiff == Max(1, recentEntry.date - oldestEntry.date)
                  IN  Rat((recentEntry.weight - oldestEntry.weight) * 7, 10 * daysDiff)
             ELSE Rat(recentEntry.weight - weekOldEntries[1].weight, 10)

-----------------------------------------------------------------------------
(* checkWeightVelocity(weightHistory, weightGoal) *)

GoalAchievedMessage == <<"Parabens!", "Voce", "alcancou", "sua", "meta", "de", "peso!">>

GoalAchievedRecommendation ==
    <<"Considere", "definir", "uma", "nova", "meta", "ou", "modo", "de", "manutencao">>

FastLossRecommendation ==
    <<"Perda", "superior", "a", "1kg/semana", "Considere", "aumentar", "calorias">>

\* weightHistory.sort(...) at line 82 sorts the caller's array in place
HistoryAfterVelocity(h) == IF Len(h) > 0 THEN SortByDateDesc(h) ELSE h

\* variant: a goal whose start weight is its target counts as a losing goal
IsLosing_OrEqual(goal) == goal.startWeight >= goal.targetWeight

IsLosing(goal) == goal.startWeight > goal.targetWeight

\* variant: the velocity checks come before the goal_achieved check
CheckWeightVelocity_VelocityFirst(h, goal, t) ==
    LET weeklyChange == CalculateWeeklyChange(h, t)
        isLosing == IsLosing(goal)
        alert(type, message, recommendation) ==
            [type |-> type, weeklyChange |-> weeklyChange,
             message |-> message, recommendation |-> recommendation]
        achieved ==
            /\ Len(h) > 0
            /\ LET currentWeight == SortByDateDesc(h)[1].weight
               IN  \/ isLosing /\ currentWeight <= goal.targetWeight
                   \/ ~isLosing /\ currentWeight >= goal.targetWeight
    IN  IF isLosing /\ RatLess(weeklyChange, Rat(-1, 1))
        THEN alert("fast_loss", <<"Perda", "rapida", "detectada">>, FastLossRecommendation)
        ELSE IF isLosing /\ RatLess(Rat(1, 2), weeklyChange)
        THEN alert("fast_gain", <<"Ganho", "esta", "semana">>,
                   <<"Verifique", "seus", "registros", "alimentares">>)
        ELSE IF achieved
        THEN alert("goal_achieved", GoalAchievedMessage, GoalAchievedRecommendation)
        ELSE IF isLosing /\ RatLess(Rat(-1, 5), weeklyChange) /\ RatLeq(weeklyChange, Rat(0, 1))
        THEN alert("slow_progress", <<"Progresso", "lento", "detectado">>,
                   <<"Considere", "revisar", "seu", "deficit", "calorico">>)
        ELSE alert("on_track",
                   IF isLosing THEN <<"Perda", "saudavel">> ELSE <<"Ganho", "saudavel">>,
                   <<>>)

\* variant: the fast_loss check has the sign of its threshold wrong
CheckWeightVelocity_FastLossSign(h, goal, t) ==
    LET weeklyChange == CalculateWeeklyChange(h, t)
        isLosing == IsLosing(goal)
        alert(type, message, recommendation) ==
            [type |-> type, weeklyChange |-> weeklyChange,
             message |-> message, recommendation |-> recommendation]
        achieved ==
            /\ Len(h) > 0
            /\ LET currentWeight == SortByDateDesc(h)[1].weight
               IN  \/ isLosing /\ currentWeight <= goal.targetWeight
                   \/ ~isLosing /\ currentWeight >= goal.targetWeight
    IN  IF achieved
        THEN alert("goal_achieved", GoalAchievedMessage, GoalAchievedRecommendation)
        ELSE IF isLosing /\ RatLess(Rat(1, 1), weeklyChange)
        THEN alert("fast_loss", <<"Perda", "rapida", "detectada">>, FastLossRecommendation)
        ELSE IF isLosing /\ RatLess(Rat(1, 2), weeklyChange)
        THEN alert("fast_gain", <<"Ganho", "esta", "semana">>,
                   <<"Verifique", "seus", "registros", "alimentares">>)
        ELSE IF isLosing /\ RatLess(Rat(-1, 5), weeklyChange) /\ RatLeq(weeklyChange, Rat(0, 1))
        THEN alert("slow_progress", <<"Progresso", "lento", "detectado">>,
                   <<"Considere", "revisar", "seu", "deficit", "calorico">>)
        ELSE alert("on_track",
                   IF isLosing THEN <<"Perda", "saudavel">> ELSE <<"Ganho", "saudavel">>,
                   <<>>)

\* variant: a weekly change of exactly -1 kg is a fast loss, one of exactly -0.2 kg slow
CheckWeightVelocity_InclusiveBounds(h, goal, t) ==
    LET weeklyChange == CalculateWeeklyChange(h, t)
        isLosing == IsLosing(goal)
        alert(type, message, recommendation) ==
            [type |-> type, weeklyChange |-> weeklyChange,
             message |-> message, recommendation |-> recommendation]
        achieved ==
            /\ Len(h) > 0
            /\ LET currentWeight == SortByDateDesc(h)[1].weight
               IN  \/ isLosing /\ currentWeight <= goal.targetWeight
                   \/ ~isLosing /\ currentWeight >= goal.targetWeight
    IN  IF achieved
        THEN alert("goal_achieved", GoalAchievedMessage, GoalAchievedRecommendation)
        ELSE IF isLosing /\ RatLeq(weeklyChange, Rat(-1, 1))
        THEN alert("fast_loss", <<"Perda", "rapida", "detectada">>, FastLossRecommendation)
        ELSE IF isLosing /\ RatLess(Rat(1, 2), weeklyChange)
        THEN alert("fast_gain", <<"Ganho", "esta", "semana">>,
                   <<"Verifique", "seus", "registros", "alimentares">>)
        ELSE IF isLosing /\ RatLeq(Rat(-1, 5), weeklyChange) /\ RatLeq(weeklyChange, Rat(0, 1))
        THEN alert("slow_progress", <<"Progresso", "lento", "detectado">>,
                   <<"Considere", "revisar", "seu", "deficit", "calorico">>)
        ELSE alert("on_track",
                   IF isLosing THEN <<"Perda", "saudavel">> ELSE <<"Ganho", "saudavel">>,
                   <<>>)

CheckWeightVelocity(h, goal, t) ==
    LET weeklyChange == CalculateWeeklyChange(h, t)
        isLosing == IsLosing(goal)
        alert(type, message, recommendation) ==
            [type |-> type, weeklyChange |-> weeklyChange,
             message |-> message, recommendation |-> recommendation]
        achieved ==
            /\ Len(h) > 0
            /\ LET currentWeight == SortByDateDesc(h)[1].weight
               IN  \/ isLosing /\ currentWeight <= goal.targetWeight
                   \/ ~isLosing /\ currentWeight >= goal.targetWeight
    IN  IF achieved
        THEN alert("goal_achieved", GoalAchievedMessage, GoalAchievedRecommendation)
        ELSE IF isLosing /\ RatLess(weeklyChange, Rat(-1, 1))
        THEN alert("fast_loss", <<"Perda", "rapida", "detectada">>, FastLossRecommendation)
        ELSE IF isLosing /\ RatLess(Rat(1, 2), weeklyChange)
        THEN alert("fast_gain", <<"Ganho", "esta", "semana">>,
                   <<"Verifique", "seus", "registros", "alimentares">>)
        ELSE IF isLosing /\ RatLess(Rat(-1, 5), weeklyChange) /\ RatLeq(weeklyChange, Rat(0, 1))
        THEN alert("slow_progress", <<"Progresso", "lento", "detectado">>,
                   <<"Considere", "revisar", "seu", "deficit", "calorico">>)
        ELSE alert("on_track",
                   IF isLosing THEN <<"Perda", "saudavel">> ELSE <<"Ganho", "saudavel">>,
                   <<>>)

-----------------------------------------------------------------------------
(* shouldRecalculateCalories(currentWeight, lastCalculatedWeight, weightHistory),
   with t the value new Date() returns at line 168 *)

DriftThreshold == 20      \* 2 kg

StagnationThreshold == 5  \* 0.5 kg

MinPlateauEntries == 4

\* `Seu peso mudou ${weightDiff.toFixed(1)}kg desde o ultimo calculo`
DriftReason(weightDiff) ==
    <<"Seu", "peso", "mudou", ToFixed1(weightDiff) \o "kg", "desde", "o", "ultimo", "calculo">>

\* 'Possivel plato detectado - peso estavel ha 4+ semanas'
PlateauReason ==
    <<"Possivel", "plato", "detectado", "-", "peso", "estavel", "ha", "4+", "semanas">>

\* variant: the plateau check needs more than four entries
ShouldRecalculateCalories_FiveEntries(currentWeight, lastWeight, h, t) ==
    LET weightDiff == Abs(currentWeight - lastWeight)
        sorted == SortByDateDesc(h)
        fourWeeksAgo == t - 28
        oldEntries == FilterOnOrBefore(sorted, fourWeeksAgo)
    IN  IF weightDiff >= DriftThreshold
        THEN [shouldRecalculate |-> TRUE, reason |-> DriftReason(weightDiff)]
        ELSE IF /\ Len(h) > MinPlateauEntries
                /\ Len(oldEntries) > 0
                /\ Abs(currentWeight - oldEntries[1].weight) < StagnationThreshold
        THEN [shouldRecalculate |-> TRUE, reason |-> PlateauReason]
        ELSE [shouldRecalculate |-> FALSE, reason |-> <<>>]

\* variant: a drift of exactly 2 kg does not trigger
ShouldRecalculateCalories_StrictDrift(currentWeight, lastWeight, h, t) ==
    LET weightDiff == Abs(currentWeight - lastWeight)
        sorted == SortByDateDesc(h)
        fourWeeksAgo == t - 28
        oldEntries == FilterOnOrBefore(sorted, fourWeeksAgo)
    IN  IF weightDiff > DriftThreshold
        THEN [shouldRecalculate |-> TRUE, reason |-> DriftReason(weightDiff)]
        ELSE IF /\ Len(h) >= MinPlateauEntries
                /\ Len(oldEntries) > 0
                /\ Abs(currentWeight - oldEntries[1].weight) < StagnationThreshold
        THEN [shouldRecalculate |-> TRUE, reason |-> PlateauReason]
        ELSE [shouldRecalculate |-> FALSE, reason |-> <<>>]

\* variant: a difference of exactly the stagnation threshold counts as a plateau
ShouldRecalculateCalories_InclusiveStagnation(currentWeight, lastWeight, h, t) ==
    LET weightDiff == Abs(currentWeight - lastWeight)
        oldEntries == FilterOnOrBefore(SortByDateDesc(h), t - 28)
    IN  IF weightDiff >= DriftThreshold
        THEN [shouldRecalculate |-> TRUE, reason |-> DriftReason(weightDiff)]
        ELSE IF /\ Len(h) >= MinPlateauEntries
                /\ Len(oldEntries) > 0
                /\ Abs(currentWeight - oldEntries[1].weight) <= StagnationThreshold
        THEN [shouldRecalculate |-> TRUE, reason |-> PlateauReason]
        ELSE [shouldRecalculate |-> FALSE, reason |-> <<>>]

\* variant: the plateau check compares with the earliest of the four-week-old entries
ShouldRecalculateCalories_EarliestOldEntry(currentWeight, lastWeight, h, t) ==
    LET weightDiff == Abs(currentWeight - lastWeight)
        oldEntries == FilterOnOrBefore(SortByDateDesc(h), t - 28)
    IN  IF weightDiff >= DriftThreshold
        THEN [shouldRecalculate |-> TRUE, reason |-> DriftReason(weightDiff)]
        ELSE IF /\ Len(h) >= MinPlateauEntries
                /\ Len(oldEntries) > 0
                /\ Abs(currentWeight - oldEntries[Len(oldEntries)].weight) < StagnationThreshold
        THEN [shouldRecalculate |-> TRUE, reason |-> PlateauReason]
        ELSE [shouldRecalculate |-> FALSE, reason |-> <<>>]

\* variant: the stagnation rule is checked before the drift rule
ShouldRecalculateCalories_StagnationFirst(currentWeight, lastWeight, h, t) ==
    LET weightDiff == Abs(currentWeight - lastWeight)
        oldEntries == FilterOnOrBefore(SortByDateDesc(h), t - 28)
    IN  IF /\ Len(h) >= MinPlateauEntries
           /\ Len(oldEntries) > 0
           /\ Abs(currentWeight - oldEntries[1].weight) < StagnationThreshold
        THEN [shouldRecalculate |-> TRUE, reason |-> PlateauReason]
        ELSE IF weightDiff >= DriftThreshold
        THEN [shouldRecalculate |-> TRUE, reason |-> DriftReason(weightDiff)]
        ELSE [shouldRecalculate |-> FALSE, reason |-> <<>>]

\* variant: the drift is measured from the latest entry, not the profile weight
ShouldRecalculateCalories_DriftFromHistory(currentWeight, lastWeight, h, t) ==
    LET sorted == SortByDateDesc(h)
        weightDiff == Abs((IF Len(h) > 0 THEN sorted[1].weight ELSE currentWeight) - lastWeight)
        oldEntries == FilterOnOrBefore(sorted, t - 28)
    IN  IF weightDiff >= DriftThreshold
        THEN [shouldRecalculate |-> TRUE, reason |-> DriftReason(weightDiff)]
        ELSE IF /\ Len(h) >= MinPlateauEntries
                /\ Len(oldEntries) > 0
                /\ Abs(currentWeight - oldEntries[1].weight) < StagnationThreshold
        THEN [shouldRecalculate |-> TRUE, reason |-> PlateauReason]
        ELSE [shouldRecalculate |-> FALSE, reason |-> <<>>]

ShouldRecalculateCalories(currentWeight, lastWeight, h, t) ==
    LET weightDiff == Abs(currentWeight - lastWeight)
        sorted == SortByDateDesc(h)
        fourWeeksAgo == t - 28
        oldEntries == FilterOnOrBefore(sorted, fourWeeksAgo)
    IN  IF weightDiff >= DriftThreshold
        THEN [shouldRecalculate |-> TRUE, reason |-> DriftReason(weightDiff)]
        ELSE IF /\ Len(h) >= MinPlateauEntries
                /\ Len(oldEntries) > 0
                /\ Abs(currentWeight - oldEntries[1].weight) < StagnationThreshold
        THEN [shouldRecalculate |-> TRUE, reason |-> PlateauReason]
        ELSE [shouldRecalculate |-> FALSE, reason |-> <<>>]

-----------------------------------------------------------------------------
(* The nutritionCalculator and PlateauDetectionService collaborators.  Their
   code is not part of the sources at hand; they are pure functions with the
   signatures the specification lists (section 6). *)

\* calculateBMR({weight, height, age, gender}) -> kcal
calculateBMR(weight, height, age, gender) ==
    weight + (25 * height) \div 4 - 5 * age
        + (IF gender = "feminino" THEN -161 ELSE IF gender = "masculino" THEN 5 ELSE -78)

\* calculateTDEE(bmr, activityLevel) -> kcal
calculateTDEE(bmr, activityLevel) ==
    LET factor == CASE activityLevel = "sedentario" -> 1200
                    [] activityLevel = "leve" -> 1375
                    [] activityLevel = "moderado" -> 1550
                    [] activityLevel = "intenso" -> 1725
                    [] OTHER -> 1900
    IN  RoundDiv(bmr * factor, 1000)

\* calculateCalorieGoal(tdee, goal) -> kcal
calculateCalorieGoal(tdee, goal) ==
    CASE goal = "perder_peso" -> tdee - 500
      [] goal = "ganhar_massa" -> tdee + 300
      [] OTHER -> tdee

\* calculateAdjustedWeight(currentWeight, targetWeight, height) -> {weightForCalc}:
\* the obesity-aware substitution of the body weight (BMI >= 30)
calculateAdjustedWeight(currentWeight, targetWeight, height) ==
    IF currentWeight * 1000 >= 30 * height * height /\ currentWeight > targetWeight
    THEN [weightForCalc |-> targetWeight + (currentWeight - targetWeight) \div 4]
    ELSE [weightForCalc |-> currentWeight]

\* detectPlateau(history, currentCalorieGoal, estimatedDeficit) -> {suggestion, message}:
\* every result its contract admits
PlateauSuggestions == {"maintenance_week", "reduce_calories", "none"}

PlateauMessages == {<<"Plato", "confirmado">>, <<"Sem", "plato">>}

detectPlateau(history, currentCalorieGoal, estimatedDeficit) ==
    [suggestion : PlateauSuggestions, message : PlateauMessages]

\* grams of protein per kilogram, in tenths, by goal
ProteinPerKg == [perder_peso |-> 20, manter_peso |-> 16, ganhar_massa |-> 22]

calculateProtein(weightForCalc, goal, isClinicalMode) ==
    RoundDiv(weightForCalc * (IF isClinicalMode THEN 12 ELSE ProteinPerKg[goal]), 100)

calculateFat(weightForCalc) == RoundDiv(weightForCalc * 9, 100)

calculateCarbs(calorieGoal, proteinGrams, fatGrams) ==
    LET rest == calorieGoal - 4 * proteinGrams - 9 * fatGrams
    IN  [carbGrams |-> IF rest > 0 THEN RoundDiv(rest, 4) ELSE 0]

-----------------------------------------------------------------------------
(* Helpers of analyzeCalorieAdjustment *)

calculateUserCalories(weight, height, age, gender, activityLevel, goal) ==
    LET bmr == calculateBMR(weight, height, age, gender)
        tdee == calculateTDEE(bmr, activityLevel)
    IN  calculateCalorieGoal(tdee, goal)

activityMap ==
    [sedentario |-> "sedentario", leve |-> "leve", moderado |-> "moderado",
     ativo |-> "intenso", intenso |-> "intenso",
     muito_ativo |-> "muito_intenso", muito_intenso |-> "muito_intenso"]

\* The property names every object literal inherits from Object.prototype
ObjectPrototypeKeys ==
    {"constructor", "toString", "toLocaleString", "valueOf", "hasOwnProperty",
     "isPrototypeOf", "propertyIsEnumerable", "__proto__"}

\* key in object: own and inherited properties alike
HasProperty(key, object) == key \in DOMAIN object \cup ObjectPrototypeKeys

\* object[key]: the own property, else the inherited member (named; it is not
\* a string)
GetProperty(object, key) ==
    IF key \in DOMAIN object THEN object[key] ELSE "Object.prototype." \o key

getUserActivityLevel(u) ==
    IF u.activityLevel # "" /\ HasProperty(u.activityLevel, activityMap)
    THEN GetProperty(activityMap, u.activityLevel)
    ELSE "sedentario"

validGoals == {"perder_peso", "manter_peso", "ganhar_massa"}

getUserGoal(u) == IF u.goal # "" /\ u.goal \in validGoals THEN u.goal ELSE "manter_peso"

\* x || dflt on a number
OrElse(x, dflt) == IF x = 0 THEN dflt ELSE x

\* x || dflt on a string
OrElseStr(x, dflt) == IF x = "" THEN dflt ELSE x

DefaultWeight == 700

DefaultHeight == 170

DefaultAge == 30

FastLossBump == 250

MaintenanceWeekBump == 300

PlateauCut == 100

-----------------------------------------------------------------------------
(* analyzeCalorieAdjustment(user, weightHistory, lastCalculatedWeight?) *)

NoGoal == [startWeight |-> 0, targetWeight |-> 0, status |-> "absent"]

\* variant: only the absence of a goal is tested, not its status
NoActiveGoal_AbsentOnly(u) == u.weightGoal = NoGoal

\* !weightGoal || weightGoal.status !== 'active'
NoActiveGoal(u) == u.weightGoal = NoGoal \/ u.weightGoal.status # "active"

CurrentWeight(u) == OrElse(u.weight, DefaultWeight)

\* variant: a last calculated weight of 0 is used as it is
PreviousWeight_AsGiven(u, last) == last

PreviousWeight(u, last) == OrElse(last, CurrentWeight(u))

Adjustment(shouldAdjust, reason, u, suggestedGoal, difference, message, severity) ==
    [shouldAdjust |-> shouldAdjust, reason |-> reason,
     previousGoal |-> u.dailyCalorieGoal, suggestedGoal |-> suggestedGoal,
     difference |-> difference, message |-> message, severity |-> severity]

\* lines 246-256
NoGoalAdjustment(u) ==
    Adjustment(FALSE, "none", u, u.dailyCalorieGoal, 0,
               <<"Nenhuma", "meta", "de", "peso", "ativa">>, "info")

\* lines 264-271: the arguments of calculateUserCalories in the goal_achieved branch
MaintenanceArgs(u) ==
    [called |-> TRUE, weight |-> CurrentWeight(u),
     height |-> OrElse(u.height, DefaultHeight), age |-> OrElse(u.age, DefaultAge),
     gender |-> OrElseStr(u.gender, "masculino"),
     activityLevel |-> getUserActivityLevel(u), goal |-> "manter_peso"]

\* lines 319-332: the arguments of calculateUserCalories for the new calorie goal
NewCalorieGoalArgs(u) ==
    [called |-> TRUE,
     weight |-> calculateAdjustedWeight(CurrentWeight(u), u.weightGoal.targetWeight,
                                        OrElse(u.height, DefaultHeight)).weightForCalc,
     height |-> OrElse(u.height, DefaultHeight), age |-> OrElse(u.age, DefaultAge),
     gender |-> OrElseStr(u.gender, "masculino"),
     activityLevel |-> getUserActivityLevel(u), goal |-> getUserGoal(u)]

\* variant: maintenance calories taken at the obesity-adjusted weight
GoalAchievedAdjustment_AdjustedWeight(u) ==
    LET adjustedWeight == calculateAdjustedWeight(CurrentWeight(u),
                                                  u.weightGoal.targetWeight,
                                                  OrElse(u.height, DefaultHeight))
        maintenanceCalories ==
            calculateUserCalories(adjustedWeight.weightForCalc,
                                  OrElse(u.height, DefaultHeight),
                                  OrElse(u.age, DefaultAge),
                                  OrElseStr(u.gender, "masculino"),
                                  getUserActivityLevel(u),
                                  "manter_peso")
    IN  Adjustment(TRUE, "goal_achieved", u, maintenanceCalories,
                   maintenanceCalories - u.dailyCalorieGoal,
                   <<"Meta", "alcancada!", "Transitando", "para", "modo", "manutencao.">>,
                   "success")

\* lines 262-282
GoalAchievedAdjustment(u) ==
    LET a == MaintenanceArgs(u)
        maintenanceCalories ==
            calculateUserCalories(a.weight, a.height, a.age, a.gender, a.activityLevel, a.goal)
    IN  Adjustment(TRUE, "goal_achieved", u, maintenanceCalories,
                   maintenanceCalories - u.dailyCalorieGoal,
                   <<"Meta", "alcancada!", "Transitando", "para", "modo", "manutencao.">>,
                   "success")

\* variant: the fast-loss warning is tagged info
NotRecalculatedAdjustment_FastLossInfo(u, alert) ==
    IF alert.type = "fast_loss"
    THEN Adjustment(TRUE, "fast_loss", u, u.dailyCalorieGoal + FastLossBump, FastLossBump,
                    IF alert.recommendation # <<>> THEN alert.recommendation
                    ELSE <<"Considere", "aumentar", "calorias">>,
                    "info")
    ELSE Adjustment(FALSE, "none", u, u.dailyCalorieGoal, 0,
                    <<"Suas", "metas", "estao", "adequadas">>, "info")

\* variant: a slow-progress alert is passed on as the reason
NotRecalculatedAdjustment_SlowProgress(u, alert) ==
    IF alert.type = "fast_loss"
    THEN Adjustment(TRUE, "fast_loss", u, u.dailyCalorieGoal + FastLossBump, FastLossBump,
                    IF alert.recommendation # <<>> THEN alert.recommendation
                    ELSE <<"Considere", "aumentar", "calorias">>,
                    "warning")
    ELSE IF alert.type = "slow_progress"
    THEN Adjustment(TRUE, "slow_progress", u, u.dailyCalorieGoal, 0, alert.recommendation,
                    "info")
    ELSE Adjustment(FALSE, "none", u, u.dailyCalorieGoal, 0,
                    <<"Suas", "metas", "estao", "adequadas">>, "info")

\* variant: the 250 kcal bump is also given on a fast_gain alert
NotRecalculatedAdjustment_AnyFastAlert(u, alert) ==
    IF alert.type \in {"fast_loss", "fast_gain"}
    THEN Adjustment(TRUE, "fast_loss", u, u.dailyCalorieGoal + FastLossBump, FastLossBump,
                    IF alert.recommendation # <<>> THEN alert.recommendation
                    ELSE <<"Considere", "aumentar", "calorias">>,
                    "warning")
    ELSE Adjustment(FALSE, "none", u, u.dailyCalorieGoal, 0,
                    <<"Suas", "metas", "estao", "adequadas">>, "info")

\* lines 291-315
NotRecalculatedAdjustment(u, alert) ==
    IF alert.type = "fast_loss"
    THEN Adjustment(TRUE, "fast_loss", u, u.dailyCalorieGoal + FastLossBump, FastLossBump,
                    IF alert.recommendation # <<>> THEN alert.recommendation
                    ELSE <<"Considere", "aumentar", "calorias">>,
                    "warning")
    ELSE Adjustment(FALSE, "none", u, u.dailyCalorieGoal, 0,
                    <<"Suas", "metas", "estao", "adequadas">>, "info")

\* variant: the new goal is computed on the profile weight, not the adjusted one
NewCalorieGoal_RawWeight(u) ==
    calculateUserCalories(CurrentWeight(u),
                          OrElse(u.height, DefaultHeight),
                          OrElse(u.age, DefaultAge),
                          OrElseStr(u.gender, "masculino"),
                          getUserActivityLevel(u),
                          getUserGoal(u))

\* lines 319-332
NewCalorieGoal(u) ==
    LET a == NewCalorieGoalArgs(u)
    IN  calculateUserCalories(a.weight, a.height, a.age, a.gender, a.activityLevel, a.goal)

\* variant: the branch is selected on a word both reasons contain
IsPlateauReason_SharedWord(reason) == Includes(reason, "peso")

\* line 337: reason.includes('plato')
IsPlateauReason(reason) == Includes(reason, "plato")

\* line 340: Math.round(user.dailyCalorieGoal * 0.2)
EstimatedDeficit(u) == RoundDiv(u.dailyCalorieGoal * 2, 10)

\* variant: the difference of the reduced goal leaves out the reduction
PlateauAdjustment_DifferenceBeforeCut(u, plateauAnalysis) ==
    IF plateauAnalysis.suggestion = "maintenance_week"
    THEN Adjustment(TRUE, "plateau_detected", u,
                    u.dailyCalorieGoal + MaintenanceWeekBump, MaintenanceWeekBump,
                    <<"Plato", "detectado.", "Sugerimos", "uma", "semana", "de", "manutencao">>,
                    "warning")
    ELSE Adjustment(TRUE, "plateau_detected", u,
                    NewCalorieGoal(u) - PlateauCut,
                    NewCalorieGoal(u) - u.dailyCalorieGoal,
                    plateauAnalysis.message, "warning")

\* variant: the maintenance week adds 300 to the recomputed goal
PlateauAdjustment_BumpOnNewGoal(u, plateauAnalysis) ==
    IF plateauAnalysis.suggestion = "maintenance_week"
    THEN Adjustment(TRUE, "plateau_detected", u,
                    NewCalorieGoal(u) + MaintenanceWeekBump,
                    (NewCalorieGoal(u) + MaintenanceWeekBump) - u.dailyCalorieGoal,
                    <<"Plato", "detectado.", "Sugerimos", "uma", "semana", "de", "manutencao">>,
                    "warning")
    ELSE Adjustment(TRUE, "plateau_detected", u,
                    NewCalorieGoal(u) - PlateauCut,
                    (NewCalorieGoal(u) - PlateauCut) - u.dailyCalorieGoal,
                    plateauAnalysis.message, "warning")

\* lines 343-363
PlateauAdjustment(u, plateauAnalysis) ==
    IF plateauAnalysis.suggestion = "maintenance_week"
    THEN Adjustment(TRUE, "plateau_detected", u,
                    u.dailyCalorieGoal + MaintenanceWeekBump, MaintenanceWeekBump,
                    <<"Plato", "detectado.", "Sugerimos", "uma", "semana", "de", "manutencao">>,
                    "warning")
    ELSE Adjustment(TRUE, "plateau_detected", u,
                    NewCalorieGoal(u) - PlateauCut,
                    (NewCalorieGoal(u) - PlateauCut) - u.dailyCalorieGoal,
                    plateauAnalysis.message, "warning")

\* variant: the difference is taken the other way round
WeightChangedAdjustment_Reversed(u, reason) ==
    Adjustment(TRUE, "weight_changed", u, NewCalorieGoal(u),
               u.dailyCalorieGoal - NewCalorieGoal(u),
               reason \o <<"Novas", "metas", "calculadas.">>, "info")

\* lines 366-374
WeightChangedAdjustment(u, reason) ==
    Adjustment(TRUE, "weight_changed", u, NewCalorieGoal(u),
               NewCalorieGoal(u) - u.dailyCalorieGoal,
               reason \o <<"Novas", "metas", "calculadas.">>, "info")

\* recalculateMacrosForAdjustment, lines 384-393: the weight the macros are derived from
ProteinWeight(u) ==
    IF u.weightGoal # NoGoal
    THEN calculateAdjustedWeight(OrElse(u.weight, DefaultWeight), u.weightGoal.targetWeight,
                                 OrElse(u.height, DefaultHeight)).weightForCalc
    ELSE OrElse(u.weight, DefaultWeight)

\* recalculateMacrosForAdjustment, lines 380-406
RecalculateMacrosForAdjustment(newCalorieGoal, u) ==
    LET proteinWeight == ProteinWeight(u)
        goal == getUserGoal(u)
        protein == calculateProtein(proteinWeight, goal, u.isClinicalMode)
        fats == calculateFat(proteinWeight)
        carbResult == calculateCarbs(newCalorieGoal, protein, fats)
    IN  [protein |-> protein, carbs |-> carbResult.carbGrams, fats |-> fats]

-----------------------------------------------------------------------------
(* The inputs a call is made with *)

Entry(d, w) == [date |-> d, weight |-> w]

Histories(pool, n) == UNION {[1..k -> pool] : k \in 0..n}

LosingGoal == [startWeight |-> 900, targetWeight |-> 800, status |-> "active"]

GainingGoal == [startWeight |-> 700, targetWeight |-> 803, status |-> "active"]

\* a goal whose start weight is its target weight
EqualGoal == [startWeight |-> 803, targetWeight |-> 803, status |-> "active"]

WeightGoals ==
    {NoGoal, LosingGoal, GainingGoal, EqualGoal,
     [LosingGoal EXCEPT !.status = "achieved"],
     [LosingGoal EXCEPT !.status = "abandoned"]}

ProfileWeights == {0, 800, 804, 805}

LastWeights == {0, 784, 785, 824}

DefaultPhysique ==
    [height |-> 0, age |-> 0, gender |-> "", activityLevel |-> "", goal |-> "",
     isClinicalMode |-> FALSE]

ObesePhysique ==
    [height |-> 160, age |-> 40, gender |-> "feminino", activityLevel |-> "ativo",
     goal |-> "perder_peso", isClinicalMode |-> TRUE]

TallPhysique ==
    [height |-> 180, age |-> 25, gender |-> "outro", activityLevel |-> "atleta",
     goal |-> "ganhar_massa", isClinicalMode |-> FALSE]

Physiques == {DefaultPhysique, ObesePhysique, TallPhysique}

MakeUser(weight, physique, dailyCalorieGoal, weightGoal) ==
    [weight |-> weight, height |-> physique.height, age |-> physique.age,
     gender |-> physique.gender, activityLevel |-> physique.activityLevel,
     goal |-> physique.goal, isClinicalMode |-> physique.isClinicalMode,
     dailyCalorieGoal |-> dailyCalorieGoal, weightGoal |-> weightGoal]

Users ==
    {MakeUser(w, p, c, g) : w \in ProfileWeights, p \in Physiques,
                            c \in {2000, 1850}, g \in WeightGoals}

\* Every history of up to MaxLen entries, for a few users with a losing goal
LongPool == [date : {12, 13, 40}, weight : {800, 803}] \cup {Entry(13, 815)}

LongHistoryScenarios ==
    [user : {MakeUser(w, ObesePhysique, 2000, LosingGoal) : w \in {800, 804, 805}},
     last : {0, 785},
     history : Histories(LongPool, MaxLen)]

\* Every user, with every history of up to two entries of the last week or so
ShortPool == [date : {33, 34, 40}, weight : {800, 803, 815}]

ShortHistories == {<<>>} \cup {<<e>> : e \in ShortPool} \cup (ShortPool \X ShortPool)

\* Every user, with weigh-ins over five weeks: flat ones, in and out of date
\* order, with two to six entries, and two that are not flat
FlatHistories ==
    {<<Entry(5, 801), Entry(12, 800), Entry(19, 803), Entry(26, 802), Entry(33, 800),
       Entry(40, 803)>>,
     <<Entry(40, 803), Entry(5, 803), Entry(26, 802), Entry(13, 801)>>,
     <<Entry(5, 803), Entry(12, 801), Entry(26, 802), Entry(40, 800)>>,
     <<Entry(5, 801), Entry(40, 801)>>,
     <<Entry(40, 802), Entry(5, 803), Entry(19, 800)>>,
     <<Entry(26, 801), Entry(33, 803), Entry(13, 800), Entry(5, 803), Entry(40, 801)>>,
     <<Entry(5, 815), Entry(12, 815), Entry(26, 803), Entry(40, 801)>>,
     <<Entry(12, 804), Entry(13, 815), Entry(33, 815), Entry(34, 803), Entry(40, 803)>>}

\* Every user, with two weigh-ins whose weekly change is at or next to a threshold
\* of checkWeightVelocity, or that are three or seven days apart
BoundaryHistories ==
    {<<Entry(33, w), Entry(40, 803)>> : w \in {804, 805, 813, 814, 818}}
    \cup {<<Entry(33, 803), Entry(40, w)>> : w \in {808, 809}}
    \cup {<<Entry(37, 800), Entry(40, 794)>>, <<Entry(33, 800), Entry(40, 790)>>,
          <<Entry(35, 800), Entry(42, 790)>>}

NewCalorieGoals == {1800, 2300}

ProfileScenarios ==
    [user : Users, last : LastWeights,
     history : ShortHistories \cup FlatHistories \cup BoundaryHistories]

\* Users well above the target weight, with every physique and goal
HeavyUserScenarios ==
    [user : {MakeUser(900, p, 2000, g) : p \in Physiques, g \in WeightGoals},
     last : {0},
     history : {<<>>, <<Entry(33, 905), Entry(40, 900)>>}]

\* Stored activity levels and goals: canonical, legacy, unknown, missing, and
\* names every object has
StoredActivityLevels ==
    {"", "sedentario", "leve", "moderado", "ativo", "intenso", "muito_ativo",
     "muito_intenso", "corrida", "constructor", "toString"}

StoredGoals == {"", "perder_peso", "manter_peso", "ganhar_massa", "emagrecer"}

StoredPhysiques ==
    [height : {0, 175}, age : {0}, gender : {"", "feminino"},
     activityLevel : StoredActivityLevels, goal : StoredGoals, isClinicalMode : {FALSE}]

\* Every stored profile, with a goal reached or a drift of 2 kg
StoredProfileScenarios ==
    [user : {MakeUser(804, p, 2000, LosingGoal) : p \in StoredPhysiques},
     last : {784},
     history : {<<Entry(40, 800)>>, <<Entry(40, 810)>>}]

Scenarios ==
    LongHistoryScenarios \cup ProfileScenarios \cup HeavyUserScenarios
        \cup StoredProfileScenarios

-----------------------------------------------------------------------------
(* State machine *)

NoAlert ==
    [type |-> "unset", weeklyChange |-> Rat(0, 1), message |-> <<>>, recommendation |-> <<>>]

NoRecalc ==
    [called |-> FALSE, currentWeight |-> 0, lastWeight |-> 0,
     shouldRecalculate |-> FALSE, reason |-> <<>>]

NoPlateau ==
    [called |-> FALSE, history |-> <<>>, calorieGoal |-> 0, estimatedDeficit |-> 0,
     suggestion |-> "", message |-> <<>>]

NoResult ==
    [shouldAdjust |-> FALSE, reason |-> "unset", previousGoal |-> 0, suggestedGoal |-> 0,
     difference |-> 0, message |-> <<>>, severity |-> ""]

NoMacros == [newCalorieGoal |-> 0, protein |-> 0, carbs |-> 0, fats |-> 0]

NoCalorieArgs ==
    [called |-> FALSE, weight |-> 0, height |-> 0, age |-> 0, gender |-> "",
     activityLevel |-> "", goal |-> ""]

Init ==
    /\ now = StartDay
    /\ \E sc \in Scenarios :
           /\ user = sc.user
           /\ lastCalculatedWeight = sc.last
           /\ weightHistory = sc.history
    /\ callerHistory = weightHistory
    /\ pc = "idle"
    /\ op = "none"
    /\ nowWeekly = 0
    /\ nowTrigger = 0
    /\ velocityAlert = NoAlert
    /\ recalc = NoRecalc
    /\ plateau = NoPlateau
    /\ result = NoResult
    /\ macros = NoMacros
    /\ calorieArgs = NoCalorieArgs
    /\ applied = FALSE

\* The wall clock advances while a call is between its two reads of it
Tick ==
    /\ pc = "trigger"
    /\ now < LastDay
    /\ now' = now + 1
    /\ UNCHANGED <<user, lastCalculatedWeight, weightHistory, callerHistory, pc, op,
                   nowWeekly, nowTrigger, velocityAlert, recalc, plateau, result, macros,
                   calorieArgs, applied>>

\* analyzeCalorieAdjustment, lines 241-282: up to the return of the goal_achieved branch
AnalyzeStart ==
    /\ pc = "idle"
    /\ op' = "analyze"
    /\ IF NoActiveGoal(user)
       THEN /\ result' = NoGoalAdjustment(user)
            /\ pc' = "done"
            /\ UNCHANGED <<weightHistory, nowWeekly, velocityAlert, calorieArgs>>
       ELSE LET alert == CheckWeightVelocity(weightHistory, user.weightGoal, now)
            IN  /\ velocityAlert' = alert
                /\ nowWeekly' = now
                /\ weightHistory' = HistoryAfterVelocity(weightHistory)
                /\ IF alert.type = "goal_achieved"
                   THEN /\ result' = GoalAchievedAdjustment(user)
                        /\ calorieArgs' = MaintenanceArgs(user)
                        /\ pc' = "done"
                   ELSE /\ UNCHANGED <<result, calorieArgs>>
                        /\ pc' = "trigger"
    /\ UNCHANGED <<now, user, lastCalculatedWeight, callerHistory, nowTrigger, recalc, plateau,
                   macros, applied>>

\* analyzeCalorieAdjustment, lines 284-375
AnalyzeRecalculate ==
    /\ pc = "trigger"
    /\ op = "analyze"
    /\ LET currentWeight == CurrentWeight(user)
           previousWeight == PreviousWeight(user, lastCalculatedWeight)
           r == ShouldRecalculateCalories(currentWeight, previousWeight, weightHistory, now)
       IN  /\ recalc' = [called |-> TRUE, currentWeight |-> currentWeight,
                         lastWeight |-> previousWeight,
                         shouldRecalculate |-> r.shouldRecalculate, reason |-> r.reason]
           /\ nowTrigger' = now
           /\ calorieArgs' = IF r.shouldRecalculate THEN NewCalorieGoalArgs(user) ELSE calorieArgs
           /\ IF ~r.shouldRecalculate
              THEN /\ result' = NotRecalculatedAdjustment(user, velocityAlert)
                   /\ plateau' = plateau
              ELSE IF IsPlateauReason(r.reason)
              THEN \E plateauAnalysis \in detectPlateau(weightHistory, user.dailyCalorieGoal,
                                                        EstimatedDeficit(user)) :
                       /\ plateau' = [called |-> TRUE, history |-> weightHistory,
                                      calorieGoal |-> user.dailyCalorieGoal,
                                      estimatedDeficit |-> EstimatedDeficit(user),
                                      suggestion |-> plateauAnalysis.suggestion,
                                      message |-> plateauAnalysis.message]
                       /\ result' = PlateauAdjustment(user, plateauAnalysis)
              ELSE /\ result' = WeightChangedAdjustment(user, r.reason)
                   /\ plateau' = plateau
    /\ pc' = "done"
    /\ UNCHANGED <<now, user, lastCalculatedWeight, weightHistory, callerHistory, op,
                   nowWeekly, velocityAlert, macros, applied>>

\* calculateWeeklyChange called on its own
CallWeeklyChange ==
    /\ pc = "idle"
    /\ ~applied
    /\ op' = "estimate"
    /\ nowWeekly' = now
    /\ velocityAlert' = [NoAlert EXCEPT !.weeklyChange = CalculateWeeklyChange(weightHistory, now)]
    /\ pc' = "done"
    /\ UNCHANGED <<now, user, lastCalculatedWeight, weightHistory, callerHistory,
                   nowTrigger, recalc, plateau, result, macros, calorieArgs, applied>>

\* checkWeightVelocity called on its own
CallCheckWeightVelocity ==
    /\ pc = "idle"
    /\ ~applied
    /\ user.weightGoal # NoGoal
    /\ op' = "classify"
    /\ nowWeekly' = now
    /\ velocityAlert' = CheckWeightVelocity(weightHistory, user.weightGoal, now)
    /\ weightHistory' = HistoryAfterVelocity(weightHistory)
    /\ pc' = "done"
    /\ UNCHANGED <<now, user, lastCalculatedWeight, callerHistory,
                   nowTrigger, recalc, plateau, result, macros, calorieArgs, applied>>

\* shouldRecalculateCalories called on its own
CallShouldRecalculate ==
    /\ pc = "idle"
    /\ ~applied
    /\ op' = "should_recalculate"
    /\ nowTrigger' = now
    /\ LET r == ShouldRecalculateCalories(user.weight, lastCalculatedWeight, weightHistory, now)
       IN  recalc' = [called |-> TRUE, currentWeight |-> user.weight,
                      lastWeight |-> lastCalculatedWeight,
                      shouldRecalculate |-> r.shouldRecalculate, reason |-> r.reason]
    /\ pc' = "done"
    /\ UNCHANGED <<now, user, lastCalculatedWeight, weightHistory, callerHistory,
                   nowWeekly, velocityAlert, plateau, result, macros, calorieArgs, applied>>

\* recalculateMacrosForAdjustment called with a new calorie goal
CallRecalculateMacros ==
    /\ pc = "idle"
    /\ ~applied
    /\ op' = "recompute_macros"
    /\ \E newCalorieGoal \in NewCalorieGoals :
           macros' = [newCalorieGoal |-> newCalorieGoal]
                     @@ RecalculateMacrosForAdjustment(newCalorieGoal, user)
    /\ pc' = "done"
    /\ UNCHANGED <<now, user, lastCalculatedWeight, weightHistory, callerHistory,
                   nowWeekly, nowTrigger, velocityAlert, recalc, plateau, result,
                   calorieArgs, applied>>

\* The caller applies a weight_changed recommendation: the suggested goal becomes
\* the profile's goal and the current weight the last calculated weight; it then
\* calls analyze again with the same profile weight, history and clock
ApplyRecommendation ==
    /\ pc = "done"
    /\ op = "analyze"
    /\ ~applied
    /\ result.reason = "weight_changed"
    /\ user' = [user EXCEPT !.dailyCalorieGoal = result.suggestedGoal]
    /\ lastCalculatedWeight' \in {user.weight, CurrentWeight(user)}
    /\ callerHistory' = weightHistory
    /\ applied' = TRUE
    /\ pc' = "idle"
    /\ op' = "none"
    /\ nowWeekly' = 0
    /\ nowTrigger' = 0
    /\ velocityAlert' = NoAlert
    /\ recalc' = NoRecalc
    /\ plateau' = NoPlateau
    /\ result' = NoResult
    /\ calorieArgs' = NoCalorieArgs
    /\ UNCHANGED <<now, weightHistory, macros>>

Next ==
    \/ Tick
    \/ AnalyzeStart
    \/ AnalyzeRecalculate
    \/ CallWeeklyChange
    \/ CallCheckWeightVelocity
    \/ CallShouldRecalculate
    \/ CallRecalculateMacros
    \/ ApplyRecommendation

Spec == Init /\ [][Next]_vars

-----------------------------------------------------------------------------
(* Properties *)

Analyzed == op = "analyze" /\ pc = "done"

\* compute_calories on the obesity-adjusted weight, with the profile's defaults
ExpectedNewCalorieGoal ==
    LET height == IF user.height = 0 THEN 170 ELSE user.height
        age == IF user.age = 0 THEN 30 ELSE user.age
        gender == IF user.gender = "" THEN "masculino" ELSE user.gender
        weight == IF user.weight = 0 THEN 700 ELSE user.weight
        adjusted == calculateAdjustedWeight(weight, user.weightGoal.targetWeight, height)
    IN  calculateCalorieGoal(
            calculateTDEE(calculateBMR(adjusted.weightForCalc, height, age, gender),
                          getUserActivityLevel(user)),
            getUserGoal(user))

\* compute_calories on the profile weight as it is, goal forced to maintain_weight
ExpectedMaintenanceCalories ==
    LET height == IF user.height = 0 THEN 170 ELSE user.height
        age == IF user.age = 0 THEN 30 ELSE user.age
        gender == IF user.gender = "" THEN "masculino" ELSE user.gender
        weight == IF user.weight = 0 THEN 700 ELSE user.weight
    IN  calculateCalorieGoal(
            calculateTDEE(calculateBMR(weight, height, age, gender),
                          getUserActivityLevel(user)),
            "manter_peso")

\* C1: with no weight goal, or a goal whose status is not 'active', analyze
\* returns should_adjust = false, reason = none, severity = info, suggested =
\* previous = daily_calorie_goal and difference = 0, whatever the history and
\* the last calculated weight are.
C1_NoActiveGoalNoAdjustment ==
    (Analyzed /\ user.weightGoal.status # "active") =>
        /\ result.shouldAdjust = FALSE
        /\ result.reason = "none"
        /\ result.severity = "info"
        /\ result.suggestedGoal = user.dailyCalorieGoal
        /\ result.previousGoal = user.dailyCalorieGoal
        /\ result.difference = 0

C1_Witness ==
    /\ Analyzed
    /\ user.weightGoal.status = "abandoned"
    /\ Len(callerHistory) >= 4
    /\ lastCalculatedWeight # 0
    /\ Abs(CurrentWeight(user) - lastCalculatedWeight) >= 20
    /\ result.reason = "none"

\* C2: whenever the classifier returns goal_achieved for an active goal, analyze
\* returns should_adjust = true, reason = goal_achieved, severity = success and
\* suggested_goal = compute_calories(profile weight, not obesity-adjusted, ...,
\* maintain_weight); the recalculation trigger is not consulted, so the branch
\* wins even when the drift is 2.0 kg or more.
C2_GoalAchievedWins ==
    (/\ Analyzed
     /\ user.weightGoal.status = "active"
     /\ CheckWeightVelocity(callerHistory, user.weightGoal, nowWeekly).type = "goal_achieved") =>
        /\ result.shouldAdjust = TRUE
        /\ result.reason = "goal_achieved"
        /\ result.severity = "success"
        /\ result.suggestedGoal = ExpectedMaintenanceCalories
        /\ result.difference = ExpectedMaintenanceCalories - user.dailyCalorieGoal
        /\ ~recalc.called

C2_Witness ==
    /\ Analyzed
    /\ result.reason = "goal_achieved"
    /\ lastCalculatedWeight # 0
    /\ Abs(CurrentWeight(user) - lastCalculatedWeight) >= 20
    /\ ExpectedMaintenanceCalories # ExpectedNewCalorieGoal
    /\ calculateAdjustedWeight(user.weight, user.weightGoal.targetWeight, user.height).weightForCalc
           # user.weight

\* C3: analyze returns reason = fast_loss if and only if the goal is active, the
\* classifier's alert is fast_loss and the recalculation trigger did not fire;
\* then suggested_goal = previous_goal + 250, difference = 250 and severity =
\* warning.  When the trigger fires while the alert is fast_loss, the result is
\* weight_changed or plateau_detected and no 250 kcal bump is applied.
C3_FastLossOnlyWithoutTrigger ==
    Analyzed =>
        /\ (result.reason = "fast_loss") <=>
               (/\ user.weightGoal.status = "active"
                /\ velocityAlert.type = "fast_loss"
                /\ recalc.called
                /\ ~recalc.shouldRecalculate)
        /\ (result.reason = "fast_loss") =>
               /\ result.shouldAdjust = TRUE
               /\ result.previousGoal = user.dailyCalorieGoal
               /\ result.suggestedGoal = user.dailyCalorieGoal + 250
               /\ result.difference = 250
               /\ result.severity = "warning"
        /\ (velocityAlert.type = "fast_loss" /\ recalc.shouldRecalculate) =>
               /\ result.reason \in {"weight_changed", "plateau_detected"}
               /\ (result.reason = "weight_changed" =>
                       result.suggestedGoal = ExpectedNewCalorieGoal)

C3_Witness ==
    /\ Analyzed
    /\ result.reason = "fast_loss"
    /\ result.suggestedGoal = user.dailyCalorieGoal + 250
    /\ RatLess(velocityAlert.weeklyChange, Rat(-1, 1))
    /\ lastCalculatedWeight # 0

\* C4: when the trigger fires with the plateau reason and the plateau detector
\* suggests maintenance_week, analyze returns reason = plateau_detected,
\* severity = warning, suggested_goal = previous_goal + 300 and difference = 300,
\* whatever the recomputed calorie goal is.
C4_MaintenanceWeekAdds300 ==
    (/\ Analyzed
     /\ recalc.shouldRecalculate
     /\ recalc.reason = PlateauReason
     /\ plateau.suggestion = "maintenance_week") =>
        /\ result.shouldAdjust = TRUE
        /\ result.reason = "plateau_detected"
        /\ result.severity = "warning"
        /\ result.previousGoal = user.dailyCalorieGoal
        /\ result.suggestedGoal = user.dailyCalorieGoal + 300
        /\ result.difference = 300

C4_Witness ==
    /\ Analyzed
    /\ recalc.shouldRecalculate
    /\ recalc.reason = PlateauReason
    /\ plateau.called
    /\ plateau.suggestion = "maintenance_week"
    /\ result.suggestedGoal = user.dailyCalorieGoal + 300
    /\ ExpectedNewCalorieGoal # user.dailyCalorieGoal
    /\ ExpectedNewCalorieGoal # user.dailyCalorieGoal + 300

\* C5: when the trigger fires with the plateau reason and the detector suggests
\* anything but maintenance_week, analyze returns reason = plateau_detected,
\* severity = warning, suggested_goal = new_calorie_goal - 100, difference =
\* (new_calorie_goal - 100) - previous_goal and the detector's message, with
\* new_calorie_goal computed on the obesity-adjusted weight.
C5_PlateauCutsRecomputedGoal ==
    (/\ Analyzed
     /\ recalc.shouldRecalculate
     /\ recalc.reason = PlateauReason
     /\ plateau.suggestion # "maintenance_week") =>
        /\ plateau.called
        /\ result.shouldAdjust = TRUE
        /\ result.reason = "plateau_detected"
        /\ result.severity = "warning"
        /\ result.previousGoal = user.dailyCalorieGoal
        /\ result.suggestedGoal = ExpectedNewCalorieGoal - 100
        /\ result.difference = (ExpectedNewCalorieGoal - 100) - user.dailyCalorieGoal
        /\ result.message = plateau.message

C5_Witness ==
    /\ Analyzed
    /\ result.reason = "plateau_detected"
    /\ plateau.suggestion = "reduce_calories"
    /\ result.suggestedGoal = ExpectedNewCalorieGoal - 100
    /\ calculateAdjustedWeight(user.weight, user.weightGoal.targetWeight, user.height).weightForCalc
           # user.weight

\* C6: when the trigger fires through the weight-drift rule for an active goal
\* that is not achieved, analyze returns should_adjust = true, reason =
\* weight_changed, severity = info, suggested_goal = new_calorie_goal (computed
\* on the obesity-adjusted weight with the resolved activity level and goal
\* type) and difference = new_calorie_goal - previous_goal; the plateau detector
\* is not invoked.
C6_DriftRecomputesGoal ==
    (/\ Analyzed
     /\ recalc.shouldRecalculate
     /\ Abs(recalc.currentWeight - recalc.lastWeight) >= 20) =>
        /\ result.shouldAdjust = TRUE
        /\ result.reason = "weight_changed"
        /\ result.severity = "info"
        /\ result.previousGoal = user.dailyCalorieGoal
        /\ result.suggestedGoal = ExpectedNewCalorieGoal
        /\ result.difference = ExpectedNewCalorieGoal - user.dailyCalorieGoal
        /\ ~plateau.called

C6_Witness ==
    /\ Analyzed
    /\ result.reason = "weight_changed"
    /\ Abs(user.weight - lastCalculatedWeight) = 20
    /\ Len(callerHistory) >= 4
    /\ ExpectedNewCalorieGoal # ExpectedMaintenanceCalories
    /\ ExpectedNewCalorieGoal # user.dailyCalorieGoal

\* The scenario of C7: weigh-ins spanning five weeks, every entry within 0.3 kg
\* of every other
FlatFiveWeeks(h) ==
    /\ \A i, j \in 1..Len(h) : Abs(h[i].weight - h[j].weight) <= 3
    /\ \E i, j \in 1..Len(h) : h[i].date - h[j].date >= 35

FlatScenario ==
    /\ Analyzed
    /\ user.dailyCalorieGoal = 2000
    /\ user.weightGoal.status = "active"
    /\ user.weightGoal.startWeight > user.weightGoal.targetWeight
    /\ FlatFiveWeeks(callerHistory)

\* C7 as stated: in the flat five-week scenario analyze returns
\* plateau_detected for every profile weight and every last calculated weight.
C7_Original == FlatScenario => result.reason = "plateau_detected"

\* C7 as amended: in the flat five-week scenario analyze returns
\* plateau_detected provided the history has at least 4 entries, one of them
\* dated 28 days or more before the evaluation, the most recent entry is above
\* the target, the profile weight is within 0.5 kg (exclusive) of every entry
\* that old, and the last calculated weight is absent or less than 2.0 kg away
\* from the profile weight.
C7_FlatHistoryPlateau ==
    (/\ FlatScenario
     /\ Len(callerHistory) >= 4
     /\ \A i \in 1..Len(callerHistory) :
            (\A j \in 1..Len(callerHistory) : callerHistory[j].date <= callerHistory[i].date)
                => callerHistory[i].weight > user.weightGoal.targetWeight
     /\ \E i \in 1..Len(callerHistory) : callerHistory[i].date <= nowTrigger - 28
     /\ \A i \in 1..Len(callerHistory) :
            callerHistory[i].date <= nowTrigger - 28
                => Abs((IF user.weight = 0 THEN 700 ELSE user.weight)
                       - callerHistory[i].weight) < 5
     /\ \/ lastCalculatedWeight = 0
        \/ Abs((IF user.weight = 0 THEN 700 ELSE user.weight) - lastCalculatedWeight) < 20) =>
        result.reason = "plateau_detected"

C7_Witness ==
    /\ FlatScenario
    /\ Len(callerHistory) = 4
    /\ lastCalculatedWeight # 0
    /\ user.weight = 804
    /\ result.reason = "plateau_detected"

\* C8: no call mutates its inputs: after any call the caller's history holds
\* the same entries in the same order as before the call.
C8_InputsNotMutated == pc = "done" => weightHistory = callerHistory

\* C9: within one analyze evaluation the weekly-change estimator and the
\* recalculation trigger use the same instant as 'now'.
C9_SingleClockReading ==
    (Analyzed /\ nowWeekly # 0 /\ nowTrigger # 0) => nowWeekly = nowTrigger

DatedOnOrBefore(h, cutoff) == {i \in 1..Len(h) : h[i].date <= cutoff}

\* Of the positions S of h, the one of the most recently dated entry; of several
\* entries of that date, the one supplied first
MostRecentOf(h, S) ==
    CHOOSE i \in S : \A j \in S : h[j].date < h[i].date \/ (h[j].date = h[i].date /\ i <= j)

\* The dates of the entries of h at the positions S
DatesOf(h, S) == {h[i].date : i \in S}

\* shouldRecalculateCalories was called with a drift below 2 kg
BelowDrift == recalc.called /\ Abs(recalc.currentWeight - recalc.lastWeight) < 20

\* C11: with a drift below 2.0 kg, the trigger fires, with the plateau reason,
\* exactly when the history has at least 4 entries, at least one of them is dated
\* at or before 28 days before the clock reading, and the current weight is less
\* than 0.5 kg (0.5 excluded) from the weight of the most recently dated of those
\* entries; otherwise it does not fire and the reason is empty.
C11_StagnationTrigger ==
    BelowDrift =>
        LET old == DatedOnOrBefore(callerHistory, nowTrigger - 28)
            stagnant ==
                /\ Len(callerHistory) >= 4
                /\ old # {}
                /\ Abs(recalc.currentWeight - callerHistory[MostRecentOf(callerHistory, old)].weight) < 5
        IN  /\ recalc.shouldRecalculate = stagnant
            /\ recalc.reason = IF stagnant THEN PlateauReason ELSE <<>>

\* a call with 4 entries, one of them four weeks old and exactly 0.5 kg from the
\* current weight, and no trigger
C11_Witness ==
    /\ BelowDrift
    /\ Len(callerHistory) >= 4
    /\ LET old == DatedOnOrBefore(callerHistory, nowTrigger - 28)
       IN  /\ old # {}
           /\ Abs(recalc.currentWeight - callerHistory[MostRecentOf(callerHistory, old)].weight) = 5
    /\ ~recalc.shouldRecalculate
    /\ recalc.reason = <<>>

\* the plateau check ran: drift below 2 kg, 4 entries or more, and old entries
\* of at least two different dates
SeveralOldEntries ==
    /\ BelowDrift
    /\ Len(callerHistory) >= 4
    /\ Cardinality(DatesOf(callerHistory, DatedOnOrBefore(callerHistory, nowTrigger - 28))) >= 2

\* C12 as stated: the entry the current weight is compared with is the earliest
\* dated of the entries at or before 28 days before the clock reading: the trigger
\* fires only if an earliest such entry is within 0.5 kg, and stays silent only
\* if an earliest such entry is not.
C12_Original ==
    SeveralOldEntries =>
        LET old == DatedOnOrBefore(callerHistory, nowTrigger - 28)
            earliest == {i \in old : \A j \in old : callerHistory[i].date <= callerHistory[j].date}
            near(i) == Abs(recalc.currentWeight - callerHistory[i].weight) < 5
        IN  /\ recalc.shouldRecalculate => \E i \in earliest : near(i)
            /\ ~recalc.shouldRecalculate => \E i \in earliest : ~near(i)

\* C12 (amended): with several entries at or before 28 days before the clock
\* reading, the current weight is compared with the most recently dated of them.
C12_MostRecentOldEntry ==
    SeveralOldEntries =>
        LET old == DatedOnOrBefore(callerHistory, nowTrigger - 28)
            latest == {i \in old : \A j \in old : callerHistory[j].date <= callerHistory[i].date}
            near(i) == Abs(recalc.currentWeight - callerHistory[i].weight) < 5
        IN  /\ recalc.shouldRecalculate => \E i \in latest : near(i)
            /\ ~recalc.shouldRecalculate => \E i \in latest : ~near(i)

\* every earliest old entry is within 0.5 kg of the current weight, the most
\* recent one is not, and the trigger stays silent
C12_Witness ==
    /\ SeveralOldEntries
    /\ LET old == DatedOnOrBefore(callerHistory, nowTrigger - 28)
       IN  /\ \A i \in old :
                  (\A j \in old : callerHistory[i].date <= callerHistory[j].date)
                      => Abs(recalc.currentWeight - callerHistory[i].weight) < 5
           /\ \A i \in old :
                  (\A j \in old : callerHistory[j].date <= callerHistory[i].date)
                      => Abs(recalc.currentWeight - callerHistory[i].weight) >= 5
    /\ ~recalc.shouldRecalculate

\* checkWeightVelocity has returned an alert
Classified == velocityAlert.type # "unset"

\* calculateWeeklyChange has returned; velocityAlert.weeklyChange is its value
Estimated == nowWeekly # 0

AllPositions(h) == 1..Len(h)

\* The weight of the most recently dated entry of the history as supplied
LatestWeight == callerHistory[MostRecentOf(callerHistory, AllPositions(callerHistory))].weight

LosingGoalGiven ==
    user.weightGoal # NoGoal /\ user.weightGoal.startWeight > user.weightGoal.targetWeight

GainingGoalGiven ==
    user.weightGoal # NoGoal /\ user.weightGoal.startWeight <= user.weightGoal.targetWeight

\* C13: whenever the history is non-empty, a single entry included, and the
\* weight of its most recently dated entry is at or below the target of a losing
\* goal, or at or above the target of a gaining goal, the alert is goal_achieved,
\* whatever the weekly change is.
C13_GoalAchievedFirst ==
    (Classified /\ Len(callerHistory) > 0) =>
        ((\/ LosingGoalGiven /\ LatestWeight <= user.weightGoal.targetWeight
          \/ GainingGoalGiven /\ LatestWeight >= user.weightGoal.targetWeight)
            => velocityAlert.type = "goal_achieved")

\* a losing goal reached by a loss of more than 1 kg in the week
C13_Witness ==
    /\ Classified
    /\ LosingGoalGiven
    /\ Len(callerHistory) > 1
    /\ LatestWeight <= user.weightGoal.targetWeight
    /\ velocityAlert.weeklyChange.num * 1 < (-1) * velocityAlert.weeklyChange.den
    /\ velocityAlert.type = "goal_achieved"

\* C14 as stated: with a losing goal, every weekly change below -1.0 kg gives fast_loss.
C14_Original ==
    (Classified /\ LosingGoalGiven /\ RatLess(velocityAlert.weeklyChange, Rat(-1, 1)))
        => velocityAlert.type = "fast_loss"

\* C14 (amended): with a losing goal whose target the most recently dated entry
\* is still above, every weekly change below -1.0 kg gives fast_loss.
C14_FastLossAboveTarget ==
    (/\ Classified
     /\ LosingGoalGiven
     /\ RatLess(velocityAlert.weeklyChange, Rat(-1, 1))
     /\ LatestWeight > user.weightGoal.targetWeight)
        => velocityAlert.type = "fast_loss"

\* a weekly change of exactly -1.5 kg above the target
C14_Witness ==
    /\ Classified
    /\ LosingGoalGiven
    /\ RatEq(velocityAlert.weeklyChange, Rat(-3, 2))
    /\ LatestWeight > user.weightGoal.targetWeight
    /\ velocityAlert.type = "fast_loss"

\* C15: for a history of zero or one entry the weekly change is 0, whatever the
\* entry's date and weight.
C15_ShortHistoryZero ==
    (Estimated /\ Len(callerHistory) < 2) => velocityAlert.weeklyChange = Rat(0, 1)

\* calculateWeeklyChange called with a single entry
C15_Witness ==
    /\ op = "estimate"
    /\ pc = "done"
    /\ Len(callerHistory) = 1
    /\ callerHistory[1].weight = 815
    /\ velocityAlert.weeklyChange = Rat(0, 1)

ThreeDayExample == <<Entry(37, 800), Entry(40, 794)>>

SevenDayExamples == {<<Entry(33, 800), Entry(40, 790)>>, <<Entry(35, 800), Entry(42, 790)>>}

\* C16: when no entry is dated at or before 7 days before the clock reading, the
\* weekly change is (latest.weight - oldest.weight) / d * 7 with d the days
\* between the two and at least 1; 80 then 79.4 kg three days apart give -1.4, and
\* 80 then 79 kg seven days apart give -1.0 in either branch.
C16_ProratedChange ==
    /\ (Estimated /\ Len(callerHistory) >= 2
                  /\ DatedOnOrBefore(callerHistory, nowWeekly - 7) = {}) =>
           LET h == callerHistory
               latest == h[MostRecentOf(h, AllPositions(h))]
               oldest == h[CHOOSE i \in AllPositions(h) :
                               \A j \in AllPositions(h) :
                                   h[i].date < h[j].date \/ (h[i].date = h[j].date /\ j <= i)]
               days == latest.date - oldest.date
               d == IF days < 1 THEN 1 ELSE days
               change == velocityAlert.weeklyChange
           IN  /\ change.den > 0
               /\ change.num * 10 * d = (latest.weight - oldest.weight) * 7 * change.den
    /\ (Estimated /\ callerHistory = ThreeDayExample)
           => RatEq(velocityAlert.weeklyChange, Rat(-14, 10))
    /\ (Estimated /\ callerHistory \in SevenDayExamples)
           => RatEq(velocityAlert.weeklyChange, Rat(-1, 1))

\* the three-day example, prorated
C16_Witness ==
    /\ Estimated
    /\ callerHistory = ThreeDayExample
    /\ DatedOnOrBefore(callerHistory, nowWeekly - 7) = {}
    /\ velocityAlert.weeklyChange = Rat(-6 * 7, 10 * 3)

\* recalculateMacrosForAdjustment has returned
MacrosRecalculated == op = "recompute_macros" /\ pc = "done"

\* The macros derived from the body weight w for the call that returned
MacrosFrom(w) ==
    LET protein == calculateProtein(w, getUserGoal(user), user.isClinicalMode)
        fats == calculateFat(w)
    IN  [newCalorieGoal |-> macros.newCalorieGoal, protein |-> protein,
         carbs |-> calculateCarbs(macros.newCalorieGoal, protein, fats).carbGrams,
         fats |-> fats]

\* C17: the macros are derived from the obesity-adjusted weight, computed from
\* the arguments analyze uses, exactly when the profile has an active weight
\* goal, and from the raw profile weight when it has no goal or a goal that is
\* achieved or abandoned.
C17_AdjustedWeightIffActiveGoal ==
    MacrosRecalculated =>
        macros = MacrosFrom(IF NoActiveGoal(user)
                            THEN CurrentWeight(user)
                            ELSE calculateAdjustedWeight(CurrentWeight(user),
                                                         user.weightGoal.targetWeight,
                                                         OrElse(user.height, DefaultHeight)).weightForCalc)

\* C18: when at least one entry is dated at or before 7 days before the clock
\* reading, the weekly change is the weight of the most recently dated entry
\* minus the weight of the most recently dated of those entries, not prorated.
C18_LiteralDelta ==
    (Estimated /\ Len(callerHistory) >= 2
               /\ DatedOnOrBefore(callerHistory, nowWeekly - 7) # {}) =>
        LET h == callerHistory
            reference == h[MostRecentOf(h, DatedOnOrBefore(h, nowWeekly - 7))]
            change == velocityAlert.weeklyChange
        IN  /\ change.den > 0
            /\ change.num * 10 = (LatestWeight - reference.weight) * change.den

\* every week-old entry is four weeks old or more, they differ in weight, and the
\* change is the plain difference to the most recent of them
C18_Witness ==
    /\ Estimated
    /\ LET h == callerHistory
           old == DatedOnOrBefore(h, nowWeekly - 7)
       IN  /\ Cardinality({h[i].weight : i \in old}) >= 2
           /\ Cardinality(DatesOf(h, old)) >= 2
           /\ \A i \in old : h[i].date <= nowWeekly - 27
           /\ LatestWeight # h[MostRecentOf(h, old)].weight
           /\ velocityAlert.weeklyChange = Rat(LatestWeight - h[MostRecentOf(h, old)].weight, 10)

\* The goal is not achieved: no entry, or the most recently dated one is above the target
LosingGoalNotAchieved ==
    /\ LosingGoalGiven
    /\ Len(callerHistory) > 0 => LatestWeight > user.weightGoal.targetWeight

\* C19: for a losing goal that is not achieved the alert is fast_loss exactly
\* below -1.0 kg/week, fast_gain exactly above +0.5, slow_progress exactly in
\* (-0.2, 0], and on_track exactly in [-1.0, -0.2] and (0, 0.5].
C19_ThresholdPartition ==
    (Classified /\ LosingGoalNotAchieved) =>
        LET n == velocityAlert.weeklyChange.num
            d == velocityAlert.weeklyChange.den
            type == velocityAlert.type
        IN  /\ d > 0
            /\ type \in {"fast_loss", "fast_gain", "slow_progress", "on_track"}
            /\ type = "fast_loss" <=> n < -d
            /\ type = "fast_gain" <=> 2 * n > d
            /\ type = "slow_progress" <=> (5 * n > -d /\ n <= 0)
            /\ type = "on_track" <=> \/ -d <= n /\ 5 * n <= -d
                                     \/ 0 < n /\ 2 * n <= d

\* a weekly change of exactly -1.0 kg, on track
C19_Witness ==
    /\ Classified
    /\ LosingGoalNotAchieved
    /\ velocityAlert.weeklyChange.num = -velocityAlert.weeklyChange.den
    /\ velocityAlert.type = "on_track"

\* C20: for a gaining goal (start weight at or below the target) the alert is
\* goal_achieved or on_track, and analyze never returns fast_loss.
C20_GainingGoalNeverFast ==
    /\ (Classified /\ GainingGoalGiven) => velocityAlert.type \in {"goal_achieved", "on_track"}
    /\ (Analyzed /\ GainingGoalGiven) => result.reason # "fast_loss"

\* analyze of a gaining goal with a loss of more than 1 kg in the week
C20_Witness ==
    /\ Analyzed
    /\ GainingGoalGiven
    /\ velocityAlert.weeklyChange.den > 0
    /\ velocityAlert.weeklyChange.num < -velocityAlert.weeklyChange.den
    /\ velocityAlert.type = "on_track"
    /\ result.reason = "none"

CanonicalActivityLevels == {"sedentario", "leve", "moderado", "intenso", "muito_intenso"}

\* The canonical activity level of a stored value: the table, else sedentary
ExpectedActivityLevel(stored) ==
    CASE stored \in CanonicalActivityLevels -> stored
      [] stored = "ativo" -> "intenso"
      [] stored = "muito_ativo" -> "muito_intenso"
      [] OTHER -> "sedentario"

\* The canonical goal of a stored value: itself if canonical, else maintain
ExpectedGoal(stored) ==
    IF stored \in {"perder_peso", "manter_peso", "ganhar_massa"} THEN stored ELSE "manter_peso"

\* C21: the profile handed to the calorie formula is normalized: the activity
\* level goes through the table and every unknown or missing value becomes
\* sedentary, the goal is kept if canonical and else becomes maintain, a missing
\* weight, height, age or gender becomes 70, 170, 30 or male, and normalizing the
\* normalized values changes nothing.
C21_NormalizationCanonical ==
    calorieArgs.called =>
        /\ calorieArgs.activityLevel = ExpectedActivityLevel(user.activityLevel)
        /\ result.reason # "goal_achieved" => calorieArgs.goal = ExpectedGoal(user.goal)
        /\ result.reason = "goal_achieved" =>
               calorieArgs.weight = IF user.weight = 0 THEN 700 ELSE user.weight
        /\ calorieArgs.height = IF user.height = 0 THEN 170 ELSE user.height
        /\ calorieArgs.age = IF user.age = 0 THEN 30 ELSE user.age
        /\ calorieArgs.gender = IF user.gender = "" THEN "masculino" ELSE user.gender
        /\ getUserActivityLevel([user EXCEPT !.activityLevel = calorieArgs.activityLevel])
               = calorieArgs.activityLevel
        /\ getUserGoal([user EXCEPT !.goal = calorieArgs.goal]) = calorieArgs.goal

\* C22: every result of analyze has previous_goal = the profile's daily calorie
\* goal and difference = suggested_goal - previous_goal.
C22_DifferenceConsistent ==
    Analyzed =>
        /\ result.previousGoal = user.dailyCalorieGoal
        /\ result.difference = result.suggestedGoal - result.previousGoal

\* the reduced goal of a plateau, which differs from the previous goal
C22_Witness ==
    /\ Analyzed
    /\ result.reason = "plateau_detected"
    /\ plateau.suggestion # "maintenance_week"
    /\ result.difference # 0
    /\ result.difference = result.suggestedGoal - user.dailyCalorieGoal

\* C23: should_adjust is false exactly when the reason is none, and the
\* severity is success exactly for goal_achieved, warning exactly for fast_loss
\* and plateau_detected, info exactly for none and weight_changed.
C23_SeverityByReason ==
    Analyzed =>
        /\ result.shouldAdjust = (result.reason # "none")
        /\ result.severity = "success" <=> result.reason = "goal_achieved"
        /\ result.severity = "warning" <=> result.reason \in {"fast_loss", "plateau_detected"}
        /\ result.severity = "info" <=> result.reason \in {"none", "weight_changed"}
        /\ result.severity \in {"success", "warning", "info"}

\* a fast-loss warning
C23_Witness ==
    /\ Analyzed
    /\ result.reason = "fast_loss"
    /\ result.shouldAdjust
    /\ result.severity = "warning"

\* C24: analyze never returns slow_progress; without a trigger the alerts
\* slow_progress, fast_gain and on_track all give should_adjust = false, reason
\* none and the previous goal; with a trigger the result is the one of the
\* trigger's branch whatever the alert is.
C24_AlertIgnored ==
    Analyzed =>
        /\ result.reason # "slow_progress"
        /\ (recalc.called /\ ~recalc.shouldRecalculate
                /\ velocityAlert.type \in {"slow_progress", "fast_gain", "on_track"}) =>
               result = [shouldAdjust |-> FALSE, reason |-> "none",
                         previousGoal |-> user.dailyCalorieGoal,
                         suggestedGoal |-> user.dailyCalorieGoal, difference |-> 0,
                         message |-> <<"Suas", "metas", "estao", "adequadas">>,
                         severity |-> "info"]
        /\ (recalc.called /\ recalc.shouldRecalculate) =>
               IF plateau.called
               THEN /\ result.reason = "plateau_detected"
                    /\ result.suggestedGoal =
                           IF plateau.suggestion = "maintenance_week"
                           THEN user.dailyCalorieGoal + 300
                           ELSE ExpectedNewCalorieGoal - 100
                    /\ plateau.suggestion # "maintenance_week" => result.message = plateau.message
               ELSE /\ result.reason = "weight_changed"
                    /\ result.suggestedGoal = ExpectedNewCalorieGoal
                    /\ result.message = recalc.reason \o <<"Novas", "metas", "calculadas.">>

\* a slow-progress alert without a trigger gives reason none
C24_Witness ==
    /\ Analyzed
    /\ recalc.called
    /\ ~recalc.shouldRecalculate
    /\ velocityAlert.type = "slow_progress"
    /\ result.reason = "none"
    /\ ~result.shouldAdjust

\* C25: when last_calculated_weight is absent (or 0) the trigger is run with
\* last = current, and analyze never returns weight_changed: an adjusting result
\* is goal_achieved, fast_loss or plateau_detected.
C25_AbsentLastWeight ==
    (Analyzed /\ lastCalculatedWeight = 0) =>
        /\ recalc.called => recalc.lastWeight = recalc.currentWeight
        /\ result.reason # "weight_changed"
        /\ result.shouldAdjust =>
               result.reason \in {"goal_achieved", "fast_loss", "plateau_detected"}

\* no last weight, the trigger was run and found a plateau
C25_Witness ==
    /\ Analyzed
    /\ lastCalculatedWeight = 0
    /\ recalc.called
    /\ recalc.lastWeight = recalc.currentWeight
    /\ result.reason = "plateau_detected"

\* Every order in which the entries of h can be supplied
Reorderings(h) == {[i \in 1..Len(h) |-> h[f[i]]] : f \in Permutations(1..Len(h))}

\* Entries of the same date have the same weight
NoConflictingDates(h) ==
    \A i, j \in 1..Len(h) : h[i].date = h[j].date => h[i].weight = h[j].weight

\* C26: the weekly change, the alert, the trigger and with them the result of
\* analyze are the same for every order in which the entries of the history are
\* supplied, entries of the same date with different weights included.
C26_OrderIndependent ==
    \A p \in Reorderings(callerHistory) :
        /\ Estimated => CalculateWeeklyChange(p, nowWeekly) = velocityAlert.weeklyChange
        /\ Classified => CheckWeightVelocity(p, user.weightGoal, nowWeekly) = velocityAlert
        /\ recalc.called =>
               ShouldRecalculateCalories(recalc.currentWeight, recalc.lastWeight, p, nowTrigger)
                   = [shouldRecalculate |-> recalc.shouldRecalculate, reason |-> recalc.reason]
        /\ plateau.called => HistoryAfterVelocity(p) = plateau.history

\* The drift between the weights the trigger was called with
Drift == Abs(recalc.currentWeight - recalc.lastWeight)

\* The three conditions of the stagnation rule hold for the call of the trigger
StagnationConditions ==
    LET old == DatedOnOrBefore(callerHistory, nowTrigger - 28)
    IN  /\ Len(callerHistory) >= 4
        /\ old # {}
        /\ Abs(recalc.currentWeight - callerHistory[MostRecentOf(callerHistory, old)].weight) < 5

\* C27: analyze returns plateau_detected exactly when the trigger fired through
\* the stagnation rule and weight_changed exactly when it fired through the
\* drift rule; no drift reason contains the plateau marker, and the empty reason
\* of a silent trigger selects neither branch.
C27_ReasonTextSelectsBranch ==
    Analyzed =>
        /\ result.reason = "plateau_detected"
               <=> (recalc.called /\ Drift < 20 /\ StagnationConditions)
        /\ result.reason = "weight_changed" <=> (recalc.called /\ Drift >= 20)
        /\ (recalc.called /\ Drift >= 20) =>
               \A i \in 1..Len(recalc.reason) : recalc.reason[i] # "plato"
        /\ (recalc.called /\ ~recalc.shouldRecalculate) =>
               /\ recalc.reason = <<>>
               /\ ~plateau.called
               /\ result.reason \in {"none", "fast_loss"}

\* a drift of exactly 2.0 kg, whose reason text selects weight_changed
C27_Witness ==
    /\ Analyzed
    /\ recalc.called
    /\ Drift = 20
    /\ recalc.reason = <<"Seu", "peso", "mudou", "2.0kg", "desde", "o", "ultimo", "calculo">>
    /\ result.reason = "weight_changed"

AllWeekOld ==
    /\ Len(callerHistory) >= 1
    /\ \A i \in 1..Len(callerHistory) : callerHistory[i].date <= nowWeekly - 7

\* C29: when every entry is at least a week old the weekly change is 0, and
\* with such a history, or an empty one, a losing goal that is not achieved is
\* classified slow_progress.
C29_StaleHistoryZero ==
    /\ (Estimated /\ AllWeekOld) => velocityAlert.weeklyChange.num = 0
    /\ (Classified /\ LosingGoalNotAchieved /\ (AllWeekOld \/ callerHistory = <<>>))
           => velocityAlert.type = "slow_progress"

\* two stale entries of different weights, the latest above the target
C29_Witness ==
    /\ Classified
    /\ LosingGoalNotAchieved
    /\ AllWeekOld
    /\ Cardinality({callerHistory[i].weight : i \in 1..Len(callerHistory)}) >= 2
    /\ Cardinality({callerHistory[i].date : i \in 1..Len(callerHistory)}) >= 2
    /\ velocityAlert.weeklyChange.num = 0
    /\ velocityAlert.type = "slow_progress"

\* C30: after a weight_changed recommendation is applied (the suggested goal
\* becomes the daily calorie goal, the current weight the last calculated
\* weight) a second analyze with the same profile weight, history and clock
\* sees no drift and does not return weight_changed: its result is none,
\* fast_loss or plateau_detected.
C30_AppliedRecommendationStable ==
    (Analyzed /\ applied) =>
        /\ recalc.called
        /\ recalc.lastWeight = recalc.currentWeight
        /\ result.reason \in {"none", "fast_loss", "plateau_detected"}
        /\ result.previousGoal = user.dailyCalorieGoal

\* the second call finds a plateau where the first found a drift
C30_Witness ==
    /\ Analyzed
    /\ applied
    /\ result.reason = "plateau_detected"

====
